---- MODULE Spec2Model ----
(***************************************************************************)
(* A state-machine model of streamlit_app.py: a Streamlit page over the    *)
(* ElevenLabs HTTP API.  Every user interaction reruns the script; the     *)
(* state that survives a rerun is st.session_state and the module-level    *)
(* credential.  A handler that calls the provider blocks in requests.get / *)
(* requests.post, so it is split at that call: one action issues the       *)
(* request, a second one consumes the response (or the transport failure). *)
(***************************************************************************)
EXTENDS Integers, Sequences, FiniteSets, TLC

VARIABLES ELEVENLABS_API_KEY, session, pc, page

vars == <<ELEVENLABS_API_KEY, session, pc, page>>

\* ------------------------------------------------------------------ bounds
\* Number of agents a session creates (uuid4 gives each a fresh key).
MaxAgents == 2
\* Longest voice catalog the provider answers with.
MaxVoices == 2

\* --------------------------------------------------------- Python values
\* Optional values: None is the empty tuple, a present value x is <<x>>.
None == <<>>
Some(x) == <<x>>

\* `s or None` on a string (lines 98, 110, 155).
OrNone(s) == IF s = "" THEN None ELSE Some(s)

\* `o or ""` on an optional string (lines 108, 152).
OrEmpty(o) == IF o = None THEN "" ELSE o[1]

\* The empty dict {} and the empty bytes b"".
EmptyDict == [k \in {} |-> 0]
EmptyBytes == <<>>

\* bool(d) of a dict, bool(b) of a bytes object.
DictTruthy(d) == DOMAIN d # {}
BytesTruthy(b) == Len(b) > 0

\* ----------------------------------------------------------- input sets
AgentIds == 1..MaxAgents
\* The selectbox's first option, "--choose--" (line 133); agent keys are 1..MaxAgents.
Choose == 0
Names == {"Agent-a1b2c3"}
Personas == {"", "You are a helpful, concise voice assistant specialized in onboarding."}
VoiceTexts == {"", "v123"}
UserInputs == {"", "Hello, I want to sign up."}
CloneNames == {"", "demo-voice"}
Samples == {EmptyBytes, <<255, 251, 255, 251>>}
\* st.file_uploader's value: None, or an UploadedFile holding a sample.
Uploads == {None} \cup {Some(b) : b \in Samples}

\* ------------------------------------------------------------ the page
\* What one script run renders and computes.  It is rebuilt by every run.
BlankPage(op) ==
    [op |-> op,
     warning |-> (ELEVENLABS_API_KEY = None),
     input |-> None,
     req |-> None,
     calls |-> 0,
     resp |-> None,
     fault |-> "",
     exception |-> "",
     ret |-> None,
     errors |-> <<>>,
     preview |-> None,
     audio |-> None,
     json |-> None,
     success |-> FALSE]

agents == session.agents

Min(a, b) == IF a <= b THEN a ELSE b

\* The right column's voice preview (lines 121-128): the first 20 stored voices,
\* or None when the info line "No voices loaded yet" is shown instead.
PreviewLimit == 20
Preview(s) ==
    IF "_voices" \in DOMAIN s /\ Len(s["_voices"]) > 0
    THEN Some(SubSeq(s["_voices"], 1, Min(PreviewLimit, Len(s["_voices"]))))
    ELSE None

\* A run that reaches the end of the script with session s and no provider call.
Rendered(op, s) == [BlankPage(op) EXCEPT !.preview = Preview(s)]

\* --------------------------------------------------------------- Init
Init ==
    /\ ELEVENLABS_API_KEY \in {None, Some("sk-secret")}
    /\ session = [agents |-> EmptyDict]
    /\ pc = "idle"
    /\ page = BlankPage("load")

\* -------------------------------------------------------- agent store
\* `st.session_state.agents[key] = rec`, the other session keys kept.
PutAgent(s, key, rec) ==
    [s EXCEPT !.agents =
        [a \in DOMAIN s.agents \cup {key} |-> IF a = key THEN rec ELSE s.agents[a]]]

\* The record the create-agent form stores (lines 94-100).
NewAgent(agent_id, agent_name, agent_persona, default_voice_choice, now) ==
    [id |-> agent_id,
     name |-> agent_name,
     persona |-> agent_persona,
     default_voice |-> OrNone(default_voice_choice),
     created_at |-> now]

\* time.time() (line 99) as a clock that every created agent advances: a later
\* agent gets a later created_at.
Now(s) == 1700000000 + Cardinality(DOMAIN s.agents)

\* str(uuid.uuid4()) (line 93): a key no record of the store has yet.  Records
\* are never removed, so the number of records plus one is such a key.
uuid4(s) == Cardinality(DOMAIN s.agents) + 1

\* "Create agent" (lines 92-101).
CreateAgent ==
    /\ pc = "idle"
    /\ \E agent_id \in {uuid4(session)} \cap AgentIds, agent_name \in Names,
          agent_persona \in Personas, default_voice_choice \in VoiceTexts :
          /\ session' = PutAgent(session, agent_id,
                 NewAgent(agent_id, agent_name, agent_persona, default_voice_choice,
                          Now(session)))
          /\ page' = [Rendered("create_agent", session') EXCEPT
                        !.input = Some(agent_id), !.success = TRUE]
    /\ UNCHANGED <<ELEVENLABS_API_KEY, pc>>

\* Mutant: line 110 without `or None`, the text stored as it was typed.
SavedAgentRaw(ag, persona_text, new_voice) ==
    [ag EXCEPT !.default_voice = Some(new_voice), !.persona = persona_text]

\* The record "Save agent changes" leaves for agent ag (lines 110-111).
SavedAgent(ag, persona_text, new_voice) ==
    [ag EXCEPT !.default_voice = OrNone(new_voice), !.persona = persona_text]

\* "Save agent changes" on agent aid (lines 105-112).
SaveAgent ==
    /\ pc = "idle"
    /\ \E aid \in DOMAIN agents, persona_text \in Personas, new_voice \in VoiceTexts :
          /\ session' = PutAgent(session, aid, SavedAgent(agents[aid], persona_text, new_voice))
          /\ page' = [Rendered("save_agent", session') EXCEPT
                        !.input = Some(aid), !.success = TRUE]
    /\ UNCHANGED <<ELEVENLABS_API_KEY, pc>>

\* ------------------------------------------------------ the provider
ELEVENLABS_BASE == "https://api.elevenlabs.io/v1"

\* HEADERS (line 24): built once from the credential, None when it is absent.
HEADERS ==
    [h \in {"xi-api-key", "Content-Type"} |->
        IF h = "xi-api-key" THEN ELEVENLABS_API_KEY ELSE Some("application/json")]

\* requests sends the headers whose value is not None.
SentHeaders(h) == [k \in {x \in DOMAIN h : h[x] # None} |-> h[k][1]]

ListTimeout == 15
TtsTimeout == 30
CloneTimeout == 60

Statuses == {200, 201, 401, 500}
\* An error body: the JSON object {"detail": ...}, and its bytes "{}" for short.
ErrJson == [detail |-> "error"]
ErrBytes == <<123, 125>>

VoiceEntries ==
    {[voice_id |-> "v123", name |-> "demo-voice"], [voice_id |-> "v456", name |-> "Rachel"]}

RECURSIVE SeqsUpTo(_, _)
SeqsUpTo(S, n) ==
    IF n = 0 THEN {<<>>}
    ELSE LET shorter == SeqsUpTo(S, n - 1)
         IN shorter \cup {Append(q, x) : q \in shorter, x \in S}

\* The catalogs GET /v1/voices answers with: {"voices": [...]} of N entries.
Catalogs == {[voices |-> c] : c \in SeqsUpTo(VoiceEntries, MaxVoices)}

\* The body of a response is what r.json(), r.content and r.text read.
Response(status, body) == [status_code |-> status, body |-> body]

VoicesResponses ==
    {Response(200, b) : b \in Catalogs \cup {EmptyDict}}
        \cup {Response(s, ErrJson) : s \in Statuses \ {200}}

AudioBodies == {EmptyBytes, <<255, 251>>}

TtsResponses ==
    {Response(200, b) : b \in AudioBodies}
        \cup {Response(s, ErrBytes) : s \in Statuses \ {200}}

CloneBodies == {EmptyDict, [voice_id |-> "v123", name |-> "demo-voice"]}

CloneResponses ==
    {Response(s, b) : s \in {200, 201}, b \in CloneBodies}
        \cup {Response(s, ErrJson) : s \in Statuses \ {200, 201}}

\* A transport failure and the exception requests raises for it.
Faults == {"timeout", "connection_error"}
Raised(fault) ==
    IF fault = "timeout" THEN "requests.exceptions.Timeout"
    ELSE "requests.exceptions.ConnectionError"

\* st.error(f"<what> {r.status_code} {r.text}")
ErrorMessage(what, r) == [msg |-> what, status |-> r.status_code, text |-> r.body]

\* ---------------------------------------------------------- list_voices
\* The request of list_voices (lines 35-36).
list_voices_request ==
    [method |-> "GET", url |-> <<ELEVENLABS_BASE, "/voices">>,
     headers |-> SentHeaders(HEADERS), json |-> None, timeout |-> ListTimeout]

\* list_voices on the provider's response r (lines 37-41).
list_voices(r) ==
    IF r.status_code = 200
    THEN [ret |-> r.body, errors |-> <<>>]
    ELSE [ret |-> EmptyDict, errors |-> <<ErrorMessage("Error listing voices:", r)>>]

\* d.get(key, default) on a dict.
DictGet(d, key, default) == IF key \in DOMAIN d THEN d[key] ELSE default

\* st.session_state._voices = v
StoreVoices(s, v) == [k \in DOMAIN s \cup {"_voices"} |-> IF k = "_voices" THEN v ELSE s[k]]

\* Mutant: line 119 testing the list, `if voices_resp.get("voices"):`.
RefreshStoreIfVoices(s, voices_resp) ==
    IF DictTruthy(voices_resp) /\ Len(DictGet(voices_resp, "voices", <<>>)) > 0
    THEN StoreVoices(s, DictGet(voices_resp, "voices", voices_resp))
    ELSE s

\* The session after `if voices_resp: st.session_state._voices = ...` (lines 119-120).
RefreshStore(s, voices_resp) ==
    IF DictTruthy(voices_resp)
    THEN StoreVoices(s, DictGet(voices_resp, "voices", voices_resp))
    ELSE s

\* "Refresh voices" up to the blocking requests.get (lines 117-118, 35-36).
RefreshVoices ==
    /\ pc = "idle"
    /\ page' = [BlankPage("refresh") EXCEPT !.req = Some(list_voices_request), !.calls = 1]
    /\ pc' = "waiting"
    /\ UNCHANGED <<ELEVENLABS_API_KEY, session>>

\* "Refresh voices" from the provider's response on (lines 37-41, 119-128).
RefreshVoicesReturn ==
    /\ pc = "waiting"
    /\ page.op = "refresh"
    /\ \E r \in VoicesResponses :
          LET res == list_voices(r)
          IN /\ session' = RefreshStore(session, res.ret)
             /\ page' = [page EXCEPT !.resp = Some(r), !.ret = Some(res.ret),
                                     !.errors = res.errors, !.preview = Preview(session')]
    /\ pc' = "idle"
    /\ UNCHANGED ELEVENLABS_API_KEY

\* ------------------------------------------- synthesize_text_to_audio_bytes
\* assistant_reply (line 147): a fixed sentence around user_input[:60].  The
\* inputs of UserInputs are shorter than 60 characters, so the slice keeps them.
AssistantReply(user_input) ==
    <<"[Simulated reply based on persona] Thanks for your message. I will help you with onboarding steps for '",
      user_input, "'.">>

\* Whether a text built of parts is the empty string.
TextEmpty(t) == \A i \in DOMAIN t : t[i] = ""

\* The request of synthesize_text_to_audio_bytes (lines 49-53).
synthesize_request(text, voice, model) ==
    [method |-> "POST",
     url |-> <<ELEVENLABS_BASE, "/text-to-speech/",
               IF voice # None THEN voice[1] ELSE "eleven_multilingual_v2">>,
     headers |-> SentHeaders(HEADERS),
     json |-> Some([k \in {"text"} \cup (IF model # None THEN {"model_id"} ELSE {}) |->
                       IF k = "text" THEN text ELSE model]),
     timeout |-> TtsTimeout]

\* synthesize_text_to_audio_bytes on the provider's response r (lines 54-58).
synthesize_text_to_audio_bytes(r) ==
    IF r.status_code = 200
    THEN [ret |-> r.body, errors |-> <<>>]
    ELSE [ret |-> EmptyBytes, errors |-> <<ErrorMessage("TTS error", r)>>]

\* "Generate agent reply & synthesize audio" up to the blocking requests.post
\* (lines 137-155, 49-53); with no agent picked it ends at line 139.
SynthesizeButton ==
    /\ pc = "idle"
    /\ \E agent_choice \in {Choose} \cup DOMAIN agents, user_input \in UserInputs :
          IF agent_choice = Choose
          THEN /\ page' = [Rendered("synthesize", session) EXCEPT
                             !.errors = <<[msg |-> "Pick an agent first.", status |-> 0,
                                           text |-> EmptyBytes]>>]
               /\ pc' = "idle"
          ELSE LET agent == agents[agent_choice]
                   assistant_reply == AssistantReply(user_input)
                   \* the text_input of line 152 is new in this run: its value is ""
                   chosen_voice == OrEmpty(agent.default_voice)
               IN /\ page' = [Rendered("synthesize", session) EXCEPT
                                !.input = Some([text |-> assistant_reply,
                                                voice |-> OrNone(chosen_voice)]),
                                !.req = Some(synthesize_request(assistant_reply,
                                                                OrNone(chosen_voice), None)),
                                !.calls = 1]
                  /\ pc' = "waiting"
    /\ UNCHANGED <<ELEVENLABS_API_KEY, session>>

\* The page after `if audio_bytes: st.audio(...); st.success(...)` (lines 156-158).
ShowAudio(pg, audio_bytes) ==
    IF BytesTruthy(audio_bytes)
    THEN [pg EXCEPT !.audio = Some(audio_bytes), !.success = TRUE]
    ELSE pg

\* Mutant: the handler posts once more when the provider answers 401.
SynthesizeReturnRetrying ==
    /\ pc = "waiting"
    /\ page.op = "synthesize"
    /\ \E r \in TtsResponses :
          LET res == synthesize_text_to_audio_bytes(r)
          IN IF r.status_code = 401 /\ page.calls < 2
             THEN /\ page' = [page EXCEPT !.calls = @ + 1]
                  /\ pc' = "waiting"
             ELSE /\ page' = ShowAudio([page EXCEPT !.resp = Some(r), !.ret = Some(res.ret),
                                                    !.errors = res.errors], res.ret)
                  /\ pc' = "idle"
    /\ UNCHANGED <<ELEVENLABS_API_KEY, session>>

\* Mutant: the handler keeps the audio it got in the session.
SynthesizeReturnCaching ==
    /\ pc = "waiting"
    /\ page.op = "synthesize"
    /\ \E r \in TtsResponses :
          LET res == synthesize_text_to_audio_bytes(r)
          IN /\ page' = ShowAudio([page EXCEPT !.resp = Some(r), !.ret = Some(res.ret),
                                               !.errors = res.errors], res.ret)
             /\ session' = [k \in DOMAIN session \cup {"_last_audio"} |->
                               IF k = "_last_audio" THEN res.ret ELSE session[k]]
    /\ pc' = "idle"
    /\ UNCHANGED ELEVENLABS_API_KEY

\* The synthesize handler from the provider's response on (lines 54-58, 155-158).
SynthesizeReturn ==
    /\ pc = "waiting"
    /\ page.op = "synthesize"
    /\ \E r \in TtsResponses :
          LET res == synthesize_text_to_audio_bytes(r)
          IN page' = ShowAudio([page EXCEPT !.resp = Some(r), !.ret = Some(res.ret),
                                            !.errors = res.errors], res.ret)
    /\ pc' = "idle"
    /\ UNCHANGED <<ELEVENLABS_API_KEY, session>>

\* ------------------------------------------------ create_instant_voice_clone
\* base64.b64encode(b).decode("utf-8") (line 69): the indices of the characters
\* in the base64 alphabet, 64 standing for the padding "=".
RECURSIVE b64encode(_)
b64encode(b) ==
    IF Len(b) = 0 THEN <<>>
    ELSE IF Len(b) = 1
         THEN <<b[1] \div 4, (b[1] % 4) * 16, 64, 64>>
    ELSE IF Len(b) = 2
         THEN <<b[1] \div 4, (b[1] % 4) * 16 + b[2] \div 16, (b[2] % 16) * 4, 64>>
    ELSE <<b[1] \div 4, (b[1] % 4) * 16 + b[2] \div 16,
           (b[2] % 16) * 4 + b[3] \div 64, b[3] % 64>>
            \o b64encode(SubSeq(b, 4, Len(b)))

\* The request of create_instant_voice_clone (lines 66-71).
create_instant_voice_clone_request(voice_name, voice_samples_wav_bytes) ==
    [method |-> "POST", url |-> <<ELEVENLABS_BASE, "/voices/add">>,
     headers |-> SentHeaders(HEADERS),
     json |-> Some([name |-> voice_name,
                    samples_base64 |-> <<b64encode(voice_samples_wav_bytes)>>]),
     timeout |-> CloneTimeout]

\* create_instant_voice_clone on the provider's response r (lines 72-76).
create_instant_voice_clone(r) ==
    IF r.status_code \in {200, 201}
    THEN [ret |-> r.body, errors |-> <<>>]
    ELSE [ret |-> EmptyDict, errors |-> <<ErrorMessage("Voice clone error", r)>>]

\* `not uploaded` (line 167): an UploadedFile is an object without __bool__ or
\* __len__, so only None is falsy.
NotUploaded(uploaded) == uploaded = None

\* "Create instant clone (demo)" up to the blocking requests.post
\* (lines 166-172, 66-71); with no file it ends at line 168.
CloneButton ==
    /\ pc = "idle"
    /\ \E uploaded \in Uploads, clone_name \in CloneNames :
          IF NotUploaded(uploaded)
          THEN /\ page' = [Rendered("clone", session) EXCEPT
                             !.input = Some([name |-> clone_name, uploaded |-> uploaded]),
                             !.errors = <<[msg |-> "Upload sample first.", status |-> 0,
                                           text |-> EmptyDict]>>]
               /\ pc' = "idle"
          ELSE LET sample_bytes == uploaded[1]
               IN /\ page' = [Rendered("clone", session) EXCEPT
                                !.input = Some([name |-> clone_name, uploaded |-> uploaded]),
                                !.req = Some(create_instant_voice_clone_request(
                                                 clone_name, sample_bytes)),
                                !.calls = 1]
                  /\ pc' = "waiting"
    /\ UNCHANGED <<ELEVENLABS_API_KEY, session>>

\* The page after `if clone_resp: st.json(...); st.success(...)` (lines 173-175).
ShowClone(pg, clone_resp) ==
    IF DictTruthy(clone_resp)
    THEN [pg EXCEPT !.json = Some(clone_resp), !.success = TRUE]
    ELSE pg

\* The clone handler from the provider's response on (lines 72-76, 172-175).
CloneReturn ==
    /\ pc = "waiting"
    /\ page.op = "clone"
    /\ \E r \in CloneResponses :
          LET res == create_instant_voice_clone(r)
          IN page' = ShowClone([page EXCEPT !.resp = Some(r), !.ret = Some(res.ret),
                                            !.errors = res.errors], res.ret)
    /\ pc' = "idle"
    /\ UNCHANGED <<ELEVENLABS_API_KEY, session>>

\* ------------------------------------------------------ transport failure
\* requests.get / requests.post raise on a timeout or a connection error
\* (lines 36, 53, 71).  No caller catches: the exception leaves the function and
\* the handler, and the script run ends there.
RequestRaises ==
    /\ pc = "waiting"
    /\ \E fault \in Faults :
          page' = [page EXCEPT !.fault = fault, !.exception = Raised(fault)]
    /\ pc' = "idle"
    /\ UNCHANGED <<ELEVENLABS_API_KEY, session>>

Next ==
    \/ CreateAgent
    \/ SaveAgent
    \/ RefreshVoices
    \/ RefreshVoicesReturn
    \/ SynthesizeButton
    \/ SynthesizeReturn
    \/ CloneButton
    \/ CloneReturn
    \/ RequestRaises

Spec == Init /\ [][Next]_vars

\* ================================================================ claims
GatewayOps == {"refresh", "synthesize", "clone"}

\* The provider answered and the handler ran to its end.
Completed == pc = "idle" /\ page.resp # None

\* What the operation's function makes of response r.
GatewayResult(op, r) ==
    CASE op = "refresh" -> list_voices(r)
      [] op = "synthesize" -> synthesize_text_to_audio_bytes(r)
      [] op = "clone" -> create_instant_voice_clone(r)

\* The statuses an operation takes for success, and the values it then returns.
SuccessStatuses(op) == IF op = "clone" THEN {200, 201} ELSE {200}
ResponsesOf(op) ==
    CASE op = "refresh" -> VoicesResponses
      [] op = "synthesize" -> TtsResponses
      [] op = "clone" -> CloneResponses
SuccessReturns(op) ==
    {GatewayResult(op, r).ret : r \in {x \in ResponsesOf(op) : x.status_code \in SuccessStatuses(op)}}

\* The kind of error an operation reports for a status: the head of its message.
ErrorKind(op, status) == GatewayResult(op, Response(status, ErrJson)).errors[1].msg

\* The empty value an operation returns on a failure.
EmptyValue(op) == IF op = "synthesize" THEN EmptyBytes ELSE EmptyDict

\* C1: a synthesize call with non-empty text that the provider answered ends in
\* played, non-empty audio or in a reported error, never in an empty success.
C1_NoEmptySuccess ==
    (/\ ELEVENLABS_API_KEY # None
     /\ page.op = "synthesize"
     /\ Completed
     /\ ~TextEmpty(page.input[1].text))
        => \/ (page.audio # None /\ Len(page.audio[1]) > 0)
           \/ page.errors # <<>>

\* C2: the clone action with an empty voice name (the credential set, the
\* uploaded sample not empty) is refused with an error and issues no upstream
\* request.
C2_EmptyNameRejected ==
    (/\ ELEVENLABS_API_KEY # None
     /\ page.op = "clone"
     /\ page.input # None
     /\ page.input[1].name = ""
     /\ page.input[1].uploaded # None
     /\ page.input[1].uploaded # Some(EmptyBytes))
        => /\ page.calls = 0
           /\ pc = "idle" => page.errors # <<>>

\* C3: the clone action with no file, or with a file of zero bytes (the
\* credential set, the voice name not empty), is refused with an error and issues
\* no upstream request.
C3_EmptyAudioRejected ==
    (/\ ELEVENLABS_API_KEY # None
     /\ page.op = "clone"
     /\ page.input # None
     /\ page.input[1].name # ""
     /\ \/ page.input[1].uploaded = None
        \/ page.input[1].uploaded = Some(EmptyBytes))
        => /\ page.calls = 0
           /\ pc = "idle" => page.errors # <<>>

C5_KeyAbsentDisables ==
    (ELEVENLABS_API_KEY = None) => (page.calls = 0 /\ page.warning)

C8_FailuresDistinct ==
    (/\ ELEVENLABS_API_KEY # None
     /\ pc = "idle"
     /\ page.op \in GatewayOps
     /\ page.req # None
     /\ \/ page.fault # ""
        \/ page.resp[1].status_code \div 100 # 2)
        => /\ page.errors # <<>> \/ page.exception # ""
           /\ page.ret # None => page.ret[1] \notin SuccessReturns(page.op)

\* C9: a synthesize call whose request times out ends, after one request, in a
\* reported error: nothing is played and no exception leaves the handler.
C9_TimeoutIsReported ==
    (/\ ELEVENLABS_API_KEY # None
     /\ page.op = "synthesize"
     /\ pc = "idle"
     /\ page.fault = "timeout")
        => /\ page.calls = 1
           /\ page.audio = None
           /\ page.errors # <<>>
           /\ page.exception = ""

\* C10: every key of the agent store is its record's id and a stored
\* default_voice is None or a non-empty string; "Create agent" adds exactly one
\* record and "Save agent changes" on A changes nothing but A's persona and
\* default_voice; no step removes or changes any other record.
C10_StoreOk ==
    \A k \in DOMAIN agents :
        /\ agents[k].id = k
        /\ \/ agents[k].default_voice = None
           \/ (Len(agents[k].default_voice) = 1 /\ agents[k].default_voice[1] # "")

C10_Step ==
    LET old == session.agents
        new == session'.agents
    IN /\ DOMAIN old \subseteq DOMAIN new
       /\ page'.op = "create_agent" =>
             /\ Cardinality(DOMAIN new \ DOMAIN old) = 1
             /\ \A k \in DOMAIN old : new[k] = old[k]
       /\ page'.op = "save_agent" =>
             /\ DOMAIN new = DOMAIN old
             /\ \A k \in DOMAIN old :
                   IF k = page'.input[1]
                   THEN /\ new[k].id = old[k].id
                        /\ new[k].name = old[k].name
                        /\ new[k].created_at = old[k].created_at
                   ELSE new[k] = old[k]
       /\ page'.op \notin {"create_agent", "save_agent"} => new = old

\* C10: the agent store is C10_StoreOk in every state and every step of the
\* program is a C10_Step.
C10_AgentStore == [](C10_StoreOk) /\ [][C10_Step]_vars

C10_Witness ==
    /\ page.op = "save_agent"
    /\ Cardinality(DOMAIN agents) = 2
    /\ agents[page.input[1]].default_voice = None
    /\ \E k \in DOMAIN agents : k # page.input[1] /\ agents[k].default_voice # None
====
